---- MODULE Spec2Model ----
(***************************************************************************)
(* Model of the PRD-to-test-case service: the FastAPI handlers of          *)
(* app/main.py, the PDF ingestion of app/parser.py, the index cache of     *)
(* app/rag_setup.py and the generation orchestrator of app/generator.py.   *)
(*                                                                         *)
(* All three handlers are `async def`, so they run on one event loop: a    *)
(* handler gives the loop up only at an `await` (main.py:31, main.py:37 /  *)
(* parser.py:142).  Everything else, get_qa_index and the whole of         *)
(* generate_testcases_with_rag included, is a blocking synchronous call.   *)
(* `running` is the request that holds the loop.                           *)
(***************************************************************************)
EXTENDS Naturals, Sequences, FiniteSets

\* ------------------------------------------------------------- bounds
\* Requests served, and restarts of the server process, in one behaviour.
MaxStarted == 4
\* Request slots (connections handled concurrently).
Reqs == {"r1", "r2"}

\* ---------------------------------------------------------- constants
\* SCHEMA: minItems / maxItems of the testcases array.
NumCases == 10

\* _qa_index = None
None == 0

\* text_content[:500] in the generic retrieval query
QueryExcerptLen == 500

\* full_context[:4000] in the enhanced prompt
PromptExcerptLen == 4000

\* ------------------------------------------------------------- strings
Whitespace == {" "}

\* The document texts tried: the empty text, whitespace only, and texts with
\* content.
Texts == {<<>>, <<" ">>, <<"a">>, <<" ", "a", " ">>}

\* f"Failed to parse document. Error: {e}": a non-blank text, whatever e is.
FailedToParseText == <<"F">>

RECURSIVE LStrip(_)
LStrip(s) ==
  IF s # <<>> /\ Head(s) \in Whitespace THEN LStrip(Tail(s)) ELSE s

RECURSIVE RStrip(_)
RStrip(s) ==
  IF s # <<>> /\ s[Len(s)] \in Whitespace
    THEN RStrip(SubSeq(s, 1, Len(s) - 1))
    ELSE s

\* str.strip()
Strip(s) == RStrip(LStrip(s))

\* `not text_content or text_content.strip() == ""`
NoTextContent(text) == Len(text) = 0 \/ Strip(text) = <<>>

\* --------------------------------------------------------------- JSON
JStr == [type |-> "string"]
JNull == [type |-> "null"]
JArr(items) == [type |-> "array", items |-> items]
JObj(members) == [type |-> "object", members |-> members]

FieldNames == {"id", "title", "preconditions", "steps", "expected_result"}

TestCaseObj ==
  JObj([id |-> JStr, title |-> JStr, preconditions |-> JStr,
        steps |-> JArr(<<JStr>>), expected_result |-> JStr])

TestCaseNullField ==
  JObj([id |-> JStr, title |-> JStr, preconditions |-> JStr,
        steps |-> JArr(<<JStr>>), expected_result |-> JNull])

TestCaseMissingField ==
  JObj([id |-> JStr, title |-> JStr, preconditions |-> JStr,
        expected_result |-> JStr])

Batch(n, first) ==
  JObj([testcases |-> JArr([i \in 1..n |-> IF i = 1 THEN first ELSE TestCaseObj])])

\* The texts response.text may hold.
PayloadTexts == {"ten_ok", "nine", "null_field", "missing_field", "not_json"}

\* The outcomes of client.models.generate_content: it raises, or returns a text.
LlmOutcomes == {"raise"} \cup PayloadTexts

JsonLoadsRaises(text) == text = "not_json"

\* json.loads(response.text), for the texts it parses
JsonLoads(text) ==
  CASE text = "ten_ok"        -> Batch(NumCases, TestCaseObj)
    [] text = "nine"          -> Batch(NumCases - 1, TestCaseObj)
    [] text = "null_field"    -> Batch(NumCases, TestCaseNullField)
    [] text = "missing_field" -> Batch(NumCases, TestCaseMissingField)
    [] OTHER                  -> JNull

\* An item as SCHEMA's "items" describes it: the five required string / array
\* properties.
ConformsItem(v) ==
  /\ v.type = "object"
  /\ FieldNames \subseteq DOMAIN v.members
  /\ \A k \in FieldNames \ {"steps"} : v.members[k].type = "string"
  /\ v.members["steps"].type = "array"

\* A value as SCHEMA describes it.
ConformsToSchema(v) ==
  /\ v.type = "object"
  /\ "testcases" \in DOMAIN v.members
  /\ v.members["testcases"].type = "array"
  /\ Len(v.members["testcases"].items) = NumCases
  /\ \A i \in 1..Len(v.members["testcases"].items) :
       ConformsItem(v.members["testcases"].items[i])

\* ------------------------------------------------------------ parsing
ParseOutcomes == {"raised", "nodocs", "docs"}
\* What lx.extract does: it raises, or returns an AnnotatedDocument (without or
\* with Extraction objects in it), an object without attributes, an object whose
\* attributes are the three lists of EXTRACTION_SCHEMA, or a dict.
ExtractOutcomes ==
  {"raised", "document", "document_objs", "bare_object", "entities_object", "dict"}

\* extraction_to_dict(result).  An AnnotatedDocument has no extraction_class but
\* a __dict__, so its attribute dictionary comes back: a non-empty mapping
\* without main_features / key_requirements / user_roles, which json.dumps
\* accepts ("dict_plain") unless it holds Extraction objects ("dict_objs").  An
\* object without attributes gives the empty mapping ("dict_empty"), one with
\* the three lists as attributes a mapping with them ("dict_lists"); a dict has
\* neither extraction_class nor __dict__ and comes back as str(result) ("str").
extraction_to_dict(result) ==
  CASE result = "document_objs"   -> "dict_objs"
    [] result = "bare_object"     -> "dict_empty"
    [] result = "entities_object" -> "dict_lists"
    [] result = "dict"            -> "str"
    [] OTHER                      -> "dict_plain"

NoContext == [text_content |-> <<>>, extracted_entities |-> "unset"]

\* parse_pdf_with_images_async with one try-block around both steps: a failure
\* of lx.extract is answered like a failure of LlamaParse.
ParsePdfOneTry(po, text, eo) ==
  IF po \in {"raised", "nodocs"} \/ eo = "raised"
    THEN [text_content |-> FailedToParseText, extracted_entities |-> "None"]
    ELSE [text_content |-> text, extracted_entities |-> extraction_to_dict(eo)]

NoDoc == [full_text |-> <<>>, extract |-> "none"]

\* full_text, and how lx.extract ended when step 2 was reached.
ParsedDoc(po, text, eo) ==
  IF po = "docs" THEN [full_text |-> text, extract |-> eo] ELSE NoDoc

\* The dictionary parse_pdf_with_images_async returns.
ParsePdf(po, text, eo) ==
  IF po \in {"raised", "nodocs"}
    THEN [text_content |-> FailedToParseText, extracted_entities |-> "None"]
    ELSE IF eo = "raised"
      THEN [text_content |-> text, extracted_entities |-> "None"]
      ELSE [text_content |-> text, extracted_entities |-> extraction_to_dict(eo)]

\* `if extracted_entities:`: None and the empty mapping are false.
Truthy(entities) == entities \notin {"None", "dict_empty"}

\* extracted_entities.get(...): a str has no get.
GetRaises(entities) == entities = "str"

\* extracted_entities.get(key, []) for the three keys of the query.
EntityList(entities, key) == IF entities = "dict_lists" THEN <<key>> ELSE <<>>

\* s[:n]
Take(s, n) == SubSeq(s, 1, IF Len(s) < n THEN Len(s) ELSE n)

NoQuery ==
  [template |-> "none", features |-> <<>>, requirements |-> <<>>, roles |-> <<>>,
   excerpt |-> <<>>]

\* rag_query, lines 76-97: the entity query when extracted_entities is true,
\* else the generic template with the first 500 characters of the text.
RagQuery(text, entities) ==
  IF Truthy(entities)
    THEN [template |-> "entity",
          features |-> EntityList(entities, "main_features"),
          requirements |-> EntityList(entities, "key_requirements"),
          roles |-> EntityList(entities, "user_roles"),
          excerpt |-> <<>>]
    ELSE [template |-> "generic", features |-> <<>>, requirements |-> <<>>,
          roles |-> <<>>, excerpt |-> Take(text, QueryExcerptLen)]

\* json.dumps(extracted_entities, indent=2)
JsonDumpsRaises(entities) == entities = "dict_objs"

\* -------------------------------------------------------------- state
VARIABLES
  running,        \* the request holding the event loop, or "none"
  started,        \* requests accepted, and restarts of the process, so far
  pc,             \* each request's position in its handler
  kind,           \* each request's endpoint
  tmp,            \* whether the request's temporary PDF exists
  ctx,            \* parsed_content
  ingest,         \* how LlamaParse ended for the request
  doc,            \* the text LlamaParse gave and how lx.extract ended
  trace,          \* the stages generate_testcases_with_rag went through
  fb,             \* the calls of generate_testcases_multimodal
  ragErr,         \* the exception raised inside the RAG try-block
  llm,            \* the outcomes of generate_content, in call order
  prompts,        \* the prompts handed to generate_content, in call order
  query,          \* the rag_query handed to query_engine.query
  gen,            \* how generate_testcases_with_rag ended
  resp,           \* the response
  qa_index,       \* rag_setup._qa_index
  persisted,      \* whether PERSIST_DIR holds a persisted index
  builds,         \* runs of create_qa_knowledge_base
  resets,         \* calls of reset_qa_index in this run of the process
  restarted,      \* whether this run of the process follows an earlier one
  epoch,          \* get_qa_index since the last reset (or the start)
  returned,       \* the index objects get_qa_index has returned so far
  got             \* what get_qa_index did for the request

reqVars ==
  <<kind, tmp, ctx, ingest, doc, trace, fb, ragErr, llm, prompts, query, gen, resp>>
idxVars == <<qa_index, persisted, builds, resets, restarted, epoch, returned>>
vars == <<running, started, pc, reqVars, idxVars, got>>

NoGen == [status |-> "none", value |-> JNull, origin |-> "none", error |-> "none"]
Returned(v) == [status |-> "returned", value |-> v, origin |-> "none", error |-> "none"]
Raised(o, e) == [status |-> "raised", value |-> JNull, origin |-> o, error |-> e]
NoResp ==
  [status |-> "none", code |-> 0, origin |-> "none", error |-> "none", body |-> JNull]
NoFb == [calls |-> 0, failed |-> 0, arg |-> NoContext]
NoEpoch == [gets |-> 0, builds |-> 0, ok |-> 0, returned |-> {}]

Init ==
  /\ running = "none"
  /\ started = 0
  /\ pc = [r \in Reqs |-> "idle"]
  /\ kind = [r \in Reqs |-> "none"]
  /\ tmp = [r \in Reqs |-> FALSE]
  /\ ctx = [r \in Reqs |-> NoContext]
  /\ ingest = [r \in Reqs |-> "none"]
  /\ doc = [r \in Reqs |-> NoDoc]
  /\ trace = [r \in Reqs |-> <<>>]
  /\ fb = [r \in Reqs |-> NoFb]
  /\ ragErr = [r \in Reqs |-> "none"]
  /\ llm = [r \in Reqs |-> <<>>]
  /\ prompts = [r \in Reqs |-> <<>>]
  /\ query = [r \in Reqs |-> NoQuery]
  /\ gen = [r \in Reqs |-> NoGen]
  /\ resp = [r \in Reqs |-> NoResp]
  /\ qa_index = None
  /\ persisted = FALSE
  /\ builds = 0
  /\ resets = 0
  /\ restarted = FALSE
  /\ epoch = NoEpoch
  /\ returned = {}
  /\ got = [r \in Reqs |-> "none"]

\* --------------------------------------------------------- event loop
\* get_qa_index awaiting the construction of the index.
AwaitPointsWithBuild == {"reading", "parsing", "get_build"}

\* The positions at which a handler awaits: file.read() and parser.aload_data().
AwaitPoints == {"reading", "parsing"}

Parked(p) == p \in AwaitPoints \cup {"idle", "finished"}

\* The loop runs the handler that holds it; when no handler holds it, it resumes
\* a parked one, once the responses of the finished ones are out.
Runnable(r) ==
  \/ running = r
  \/ running = "none" /\ Parked(pc[r]) /\ \A q \in Reqs : pc[q] # "finished"

Goto(r, p) ==
  /\ pc' = [pc EXCEPT ![r] = p]
  /\ running' = IF Parked(p) THEN "none" ELSE r

\* ----------------------------------------------------- rag_setup.py
\* get_qa_index without the test of the cache.
AlwaysBuild(cache) == TRUE

\* `if _qa_index is None:`
NeedsBuild(cache) == cache = None

\* create_qa_knowledge_base returns the index it built and persisted, or raises.
BuildOutcomes == {"ok", "raises"}

\* The index object a run of create_qa_knowledge_base makes: a new one each run.
NewIndex(n) == n + 1

\* A get_qa_index that assigned the index before its construction was over: the
\* index of a run that raised stays in the cache.
CachePartialIndex(cache, n) == NewIndex(n)

\* `_qa_index = create_qa_knowledge_base()` when the call raises: the assignment
\* never happens and the cache keeps what it held.
CacheAfterRaise(cache, n) == cache

EpochReturn(e, inst, built) ==
  [gets |-> e.gets + 1,
   builds |-> e.builds + (IF built THEN 1 ELSE 0),
   ok |-> e.ok + (IF built THEN 1 ELSE 0),
   returned |-> e.returned \cup {inst}]

EpochRaise(e) == [e EXCEPT !.gets = @ + 1, !.builds = @ + 1]

\* Where a handler goes on when get_qa_index has returned.
AfterGet(k) == IF k = "upload" THEN "gen_retrieve" ELSE "test_query"

\* reset_qa_index without the `global _qa_index` declaration: the assignment
\* makes a local and the cache keeps its index.
ResetLocalOnly(cache) == cache

\* reset_qa_index(): `_qa_index = None`
ResetCache(cache) == None

\* --------------------------------------------------------- generator.py
\* A handler for the errors of the LLM call only.
ExceptLlmErrors(e) == e \in {"ApiError", "JSONDecodeError"}

\* `except Exception as e:` catches whatever the try-block raises.
ExceptException(e) == TRUE

\* Line 106 holds the assignment `full_context = text_content` inside a comment,
\* so the name the prompt's f-string reads at line 122 is never bound.
FullContextDefined == FALSE

Jump(r, p, stages, e, g) ==
  /\ Goto(r, p)
  /\ trace' = [trace EXCEPT ![r] = @ \o stages]
  /\ ragErr' = [ragErr EXCEPT ![r] = e]
  /\ gen' = [gen EXCEPT ![r] = g]

\* An exception raised inside the try-block of generate_testcases_with_rag.
RagRaise(r, stages, e) ==
  IF ExceptException(e)
    THEN Jump(r, "gen_fallback", stages \o <<"FALLBACK_PROMPT">>, e, NoGen)
    ELSE Jump(r, "gen_error", stages \o <<"ERROR">>, e, Raised("rag", e))

\* A generate_testcases_with_rag that tests the text before anything else: a
\* request without text goes to the fallback at once.
TextCheckFirst(text) == IF NoTextContent(text) THEN "gen_early" ELSE "get_index"

\* Where generate_testcases_with_rag starts, lines 57-59: with get_qa_index(),
\* whatever the text is; the test of the text comes at line 71.
FirstStep(text) == "get_index"

\* generate_testcases_multimodal ending in clean_response(response.text), which
\* wraps a text that is no JSON as {"raw_output": text} instead of raising.
MultimodalCleanResponse(o) ==
  IF o = "raise"
    THEN [ok |-> FALSE, value |-> JNull, error |-> "ApiError",
          stages |-> <<"LLM_CALL">>]
    ELSE [ok |-> TRUE,
          value |-> IF JsonLoadsRaises(o) THEN JObj([raw_output |-> JStr])
                                          ELSE JsonLoads(o),
          error |-> "none",
          stages |-> <<"LLM_CALL", "PARSE_RESULT", "DONE">>]

\* generate_testcases_multimodal, given what generate_content does.
Multimodal(o) ==
  IF o = "raise"
    THEN [ok |-> FALSE, value |-> JNull, error |-> "ApiError",
          stages |-> <<"LLM_CALL">>]
    ELSE IF JsonLoadsRaises(o)
      THEN [ok |-> FALSE, value |-> JNull, error |-> "JSONDecodeError",
            stages |-> <<"LLM_CALL", "PARSE_RESULT">>]
      ELSE [ok |-> TRUE, value |-> JsonLoads(o), error |-> "none",
            stages |-> <<"LLM_CALL", "PARSE_RESULT", "DONE">>]

\* context.get("image_content") or []: the parser's dictionary has no such key.
ImageContent(context) == <<>>

\* A fallback prompt that carries the structured summary as well.
MultimodalPromptWithEntities(context) ==
  [template |-> "multimodal", text |-> context.text_content,
   visuals |-> ImageContent(context), structured |-> context.extracted_entities,
   knowledge |-> FALSE]

\* The prompt of generate_testcases_multimodal: the text and the image text, no
\* structured summary and no retrieved knowledge.
MultimodalPrompt(context) ==
  [template |-> "multimodal", text |-> context.text_content,
   visuals |-> ImageContent(context), structured |-> "absent", knowledge |-> FALSE]

\* structured_data_for_prompt, lines 86 and 98.
StructuredData(entities) == IF Truthy(entities) THEN entities ELSE "(Not available)"

\* enhanced_prompt, were full_context the text as the comment of line 106 has
\* it: the structured summary, 4000 characters of text, the retrieved knowledge.
RagPrompt(context) ==
  [template |-> "rag", text |-> Take(context.text_content, PromptExcerptLen),
   visuals |-> <<>>, structured |-> StructuredData(context.extracted_entities),
   knowledge |-> TRUE]

\* The context generate_testcases_with_rag hands to the fallback.
FallbackArg(context) == context

FbCall(f, c, ok) ==
  [calls |-> f.calls + 1,
   failed |-> f.failed + (IF ok THEN 0 ELSE 1),
   arg |-> FallbackArg(c)]

\* os.remove(tmp_path) as the last statement of the try-body instead of a
\* finally clause: the file stays when generation raised.
RemoveInTryBody(status) == status # "returned"

\* `finally: os.remove(tmp_path)`: whether the temporary file still exists when
\* the try statement is left, however generation ended.
TmpAfterFinally(status) == FALSE

\* JSONResponse(content={"testcases": testcases})
ResponseContent(testcases) == JObj([testcases |-> testcases])

\* ------------------------------------------------------------ actions
\* POST /generate-testcases: the temporary file is created, then file.read()
\* is awaited.
StartUpload(r) ==
  /\ Runnable(r) /\ pc[r] = "idle" /\ started < MaxStarted
  /\ started' = started + 1
  /\ kind' = [kind EXCEPT ![r] = "upload"]
  /\ tmp' = [tmp EXCEPT ![r] = TRUE]
  /\ Goto(r, "reading")
  /\ UNCHANGED <<ctx, ingest, doc, trace, fb, ragErr, llm, prompts, query, gen, resp,
                 idxVars, got>>

\* file.read() returns (the bytes are written and aload_data is awaited) or
\* raises, which is outside the try/finally.
ReadDone(r) ==
  /\ Runnable(r) /\ pc[r] = "reading"
  /\ \E ok \in BOOLEAN :
       IF ok
         THEN Goto(r, "parsing") /\ UNCHANGED resp
         ELSE /\ Goto(r, "finished")
              /\ resp' = [resp EXCEPT ![r] =
                   [status |-> "error", code |-> 500, origin |-> "read",
                    error |-> "IOError", body |-> JNull]]
  /\ UNCHANGED <<started, kind, tmp, ctx, ingest, doc, trace, fb, ragErr, llm,
                 prompts, query, gen, idxVars, got>>

\* aload_data ends; the rest of parse_pdf_with_images_async runs, and the
\* handler calls generate_testcases_with_rag.
ParseDone(r) ==
  /\ Runnable(r) /\ pc[r] = "parsing"
  /\ \E po \in ParseOutcomes, text \in Texts, eo \in ExtractOutcomes :
       /\ ingest' = [ingest EXCEPT ![r] = po]
       /\ doc' = [doc EXCEPT ![r] = ParsedDoc(po, text, eo)]
       /\ ctx' = [ctx EXCEPT ![r] = ParsePdf(po, text, eo)]
       /\ Goto(r, FirstStep(ParsePdf(po, text, eo).text_content))
  /\ trace' = [trace EXCEPT ![r] = <<"START">>]
  /\ UNCHANGED <<started, kind, tmp, fb, ragErr, llm, prompts, query, gen, resp,
                 idxVars, got>>

\* GET /test-rag
StartTestRag(r) ==
  /\ Runnable(r) /\ pc[r] = "idle" /\ started < MaxStarted
  /\ started' = started + 1
  /\ kind' = [kind EXCEPT ![r] = "test_rag"]
  /\ Goto(r, "get_index")
  /\ UNCHANGED <<tmp, ctx, ingest, doc, trace, fb, ragErr, llm, prompts, query, gen,
                 resp, idxVars, got>>

\* get_qa_index(): the test of the cache, and the return of a cached index.
GetQaIndexCheck(r) ==
  /\ Runnable(r) /\ pc[r] = "get_index"
  /\ IF NeedsBuild(qa_index)
       THEN Goto(r, "get_build") /\ UNCHANGED <<epoch, returned, got>>
       ELSE /\ Goto(r, AfterGet(kind[r]))
            /\ epoch' = EpochReturn(epoch, qa_index, FALSE)
            /\ returned' = returned \cup {qa_index}
            /\ got' = [got EXCEPT ![r] = "cached"]
  /\ UNCHANGED <<started, reqVars, qa_index, persisted, builds, resets, restarted>>

\* get_qa_index(): `_qa_index = create_qa_knowledge_base()` and the return.
GetQaIndexBuild(r) ==
  /\ Runnable(r) /\ pc[r] = "get_build"
  /\ builds' = builds + 1
  /\ \E o \in BuildOutcomes :
       /\ got' = [got EXCEPT ![r] = IF o = "ok" THEN "built" ELSE "raised"]
       /\ IF o = "ok"
         THEN /\ qa_index' = NewIndex(builds)
              /\ persisted' = TRUE
              /\ epoch' = EpochReturn(epoch, NewIndex(builds), TRUE)
              /\ returned' = returned \cup {NewIndex(builds)}
              /\ Goto(r, AfterGet(kind[r]))
              /\ UNCHANGED <<trace, ragErr, gen, resp>>
         ELSE /\ qa_index' = CacheAfterRaise(qa_index, builds)
              /\ UNCHANGED <<persisted, returned>>
              /\ epoch' = EpochRaise(epoch)
              /\ IF kind[r] = "upload"
                   THEN RagRaise(r, <<>>, "IndexBuildError") /\ UNCHANGED resp
                   ELSE /\ Goto(r, "finished")
                        /\ resp' = [resp EXCEPT ![r] =
                             [status |-> "error", code |-> 500, origin |-> "test_rag",
                              error |-> "IndexBuildError", body |-> JNull]]
                        /\ UNCHANGED <<trace, ragErr, gen>>
  /\ UNCHANGED <<started, kind, tmp, ctx, ingest, doc, fb, llm, prompts, query,
                 resets, restarted>>

\* GET /test-rag after get_qa_index: the query engine and the test query.
TestQuery(r) ==
  /\ Runnable(r) /\ pc[r] = "test_query"
  /\ \E ok \in BOOLEAN :
       resp' = [resp EXCEPT ![r] =
         IF ok
           THEN [status |-> "ok", code |-> 200, origin |-> "none", error |-> "none",
                 body |-> JObj([rag_working |-> JStr])]
           ELSE [status |-> "error", code |-> 500, origin |-> "test_rag",
                 error |-> "QueryError", body |-> JNull]]
  /\ Goto(r, "finished")
  /\ UNCHANGED <<started, kind, tmp, ctx, ingest, doc, trace, fb, ragErr, llm,
                 prompts, query, gen, idxVars, got>>

\* POST /reset-rag
ResetRag(r) ==
  /\ Runnable(r) /\ pc[r] = "idle" /\ started < MaxStarted
  /\ started' = started + 1
  /\ kind' = [kind EXCEPT ![r] = "reset_rag"]
  /\ qa_index' = ResetCache(qa_index)
  /\ resets' = resets + 1
  /\ epoch' = NoEpoch
  /\ resp' = [resp EXCEPT ![r] =
       [status |-> "ok", code |-> 200, origin |-> "none", error |-> "none",
        body |-> JObj([status |-> JStr])]]
  /\ Goto(r, "finished")
  /\ UNCHANGED <<tmp, ctx, ingest, doc, trace, fb, ragErr, llm, prompts, query, gen,
                 persisted, builds, returned, got, restarted>>

\* generate_testcases_with_rag, lines 60-104: the query engine, the test for
\* text, the structured summary and the retrieval query.
GenRetrieve(r) ==
  /\ Runnable(r) /\ pc[r] = "gen_retrieve"
  /\ \E engineOk \in BOOLEAN, queryOk \in BOOLEAN :
       IF ~engineOk
         THEN RagRaise(r, <<>>, "EngineError") /\ UNCHANGED query
         ELSE IF NoTextContent(ctx[r].text_content)
           THEN /\ Jump(r, "gen_early", <<"FALLBACK_PROMPT">>, ragErr[r], NoGen)
                /\ UNCHANGED query
           ELSE IF Truthy(ctx[r].extracted_entities)
                   /\ GetRaises(ctx[r].extracted_entities)
             THEN RagRaise(r, <<>>, "AttributeError") /\ UNCHANGED query
             ELSE IF Truthy(ctx[r].extracted_entities)
                     /\ JsonDumpsRaises(ctx[r].extracted_entities)
               THEN RagRaise(r, <<>>, "TypeError") /\ UNCHANGED query
               ELSE /\ query' = [query EXCEPT ![r] =
                         RagQuery(ctx[r].text_content, ctx[r].extracted_entities)]
                    /\ IF ~queryOk
                         THEN RagRaise(r, <<>>, "QueryError")
                         ELSE Jump(r, "gen_rag", <<"RAG_PROMPT">>, ragErr[r], NoGen)
  /\ UNCHANGED <<started, kind, tmp, ctx, ingest, doc, fb, llm, prompts, resp,
                 idxVars, got>>

\* generate_testcases_with_rag, line 73: `return generate_testcases_multimodal(
\* context)` inside the try-block.
GenEarlyFallback(r) ==
  /\ Runnable(r) /\ pc[r] = "gen_early"
  /\ \E o \in LlmOutcomes :
       LET m == Multimodal(o) IN
         /\ llm' = [llm EXCEPT ![r] = Append(@, o)]
         /\ prompts' = [prompts EXCEPT ![r] = Append(@, MultimodalPrompt(ctx[r]))]
         /\ fb' = [fb EXCEPT ![r] = FbCall(@, ctx[r], m.ok)]
         /\ IF m.ok
              THEN Jump(r, "gen_done", m.stages, ragErr[r], Returned(m.value))
              ELSE RagRaise(r, m.stages, m.error)
  /\ UNCHANGED <<started, kind, tmp, ctx, ingest, doc, query, resp, idxVars, got>>

\* generate_testcases_with_rag, lines 109-158: the enhanced prompt, the LLM call
\* and json.loads.
GenRagPrompt(r) ==
  /\ Runnable(r) /\ pc[r] = "gen_rag"
  /\ \E o \in LlmOutcomes :
       IF ~FullContextDefined
         THEN RagRaise(r, <<>>, "NameError") /\ UNCHANGED <<llm, prompts>>
         ELSE /\ llm' = [llm EXCEPT ![r] = Append(@, o)]
              /\ prompts' = [prompts EXCEPT ![r] = Append(@, RagPrompt(ctx[r]))]
              /\ IF o = "raise"
                   THEN RagRaise(r, <<"LLM_CALL">>, "ApiError")
                   ELSE IF JsonLoadsRaises(o)
                     THEN RagRaise(r, <<"LLM_CALL", "PARSE_RESULT">>, "JSONDecodeError")
                     ELSE Jump(r, "gen_done", <<"LLM_CALL", "PARSE_RESULT", "DONE">>,
                               ragErr[r], Returned(JsonLoads(o)))
  /\ UNCHANGED <<started, kind, tmp, ctx, ingest, doc, fb, query, resp, idxVars, got>>

\* generate_testcases_with_rag, lines 160-164: the except handler's
\* `return generate_testcases_multimodal(context)`.
GenFallback(r) ==
  /\ Runnable(r) /\ pc[r] = "gen_fallback"
  /\ \E o \in LlmOutcomes :
       LET m == Multimodal(o) IN
         /\ llm' = [llm EXCEPT ![r] = Append(@, o)]
         /\ prompts' = [prompts EXCEPT ![r] = Append(@, MultimodalPrompt(ctx[r]))]
         /\ fb' = [fb EXCEPT ![r] = FbCall(@, ctx[r], m.ok)]
         /\ IF m.ok
              THEN Jump(r, "gen_done", m.stages, ragErr[r], Returned(m.value))
              ELSE Jump(r, "gen_error", m.stages \o <<"ERROR">>, ragErr[r],
                        Raised("fallback", m.error))
  /\ UNCHANGED <<started, kind, tmp, ctx, ingest, doc, query, resp, idxVars, got>>

\* upload_and_generate, lines 42-45: the response, or the exception going on to
\* the framework, and `finally: os.remove(tmp_path)`.
UploadFinish(r) ==
  /\ Runnable(r) /\ pc[r] \in {"gen_done", "gen_error"}
  /\ resp' = [resp EXCEPT ![r] =
       IF gen[r].status = "returned"
         THEN [status |-> "ok", code |-> 200, origin |-> "none", error |-> "none",
               body |-> ResponseContent(gen[r].value)]
         ELSE [status |-> "error", code |-> 500, origin |-> gen[r].origin,
               error |-> gen[r].error, body |-> JNull]]
  /\ tmp' = [tmp EXCEPT ![r] = TmpAfterFinally(gen[r].status)]
  /\ Goto(r, "finished")
  /\ UNCHANGED <<started, kind, ctx, ingest, doc, trace, fb, ragErr, llm, prompts,
                 query, gen, idxVars, got>>

\* The connection of a finished request serves the next request.
Recycle(r) ==
  /\ running = "none" /\ pc[r] = "finished"
  /\ pc' = [pc EXCEPT ![r] = "idle"]
  /\ kind' = [kind EXCEPT ![r] = "none"]
  /\ tmp' = [tmp EXCEPT ![r] = FALSE]
  /\ ctx' = [ctx EXCEPT ![r] = NoContext]
  /\ ingest' = [ingest EXCEPT ![r] = "none"]
  /\ doc' = [doc EXCEPT ![r] = NoDoc]
  /\ trace' = [trace EXCEPT ![r] = <<>>]
  /\ fb' = [fb EXCEPT ![r] = NoFb]
  /\ ragErr' = [ragErr EXCEPT ![r] = "none"]
  /\ llm' = [llm EXCEPT ![r] = <<>>]
  /\ prompts' = [prompts EXCEPT ![r] = <<>>]
  /\ query' = [query EXCEPT ![r] = NoQuery]
  /\ gen' = [gen EXCEPT ![r] = NoGen]
  /\ resp' = [resp EXCEPT ![r] = NoResp]
  /\ got' = [got EXCEPT ![r] = "none"]
  /\ UNCHANGED <<running, started, idxVars>>

\* The server process ends with no request in flight and is started again: the
\* module-level _qa_index of the new process is None, PERSIST_DIR is as the old
\* process left it.
Restart ==
  /\ running = "none" /\ \A r \in Reqs : pc[r] = "idle"
  /\ started < MaxStarted
  /\ started' = started + 1
  /\ restarted' = TRUE
  /\ qa_index' = None
  /\ resets' = 0
  /\ epoch' = NoEpoch
  /\ UNCHANGED <<running, pc, reqVars, persisted, builds, returned, got>>

Next ==
  \/ Restart
  \/ \E r \in Reqs :
       \/ StartUpload(r)
       \/ ReadDone(r)
       \/ ParseDone(r)
       \/ StartTestRag(r)
       \/ GetQaIndexCheck(r)
       \/ GetQaIndexBuild(r)
       \/ TestQuery(r)
       \/ ResetRag(r)
       \/ GenRetrieve(r)
       \/ GenEarlyFallback(r)
       \/ GenRagPrompt(r)
       \/ GenFallback(r)
       \/ UploadFinish(r)
       \/ Recycle(r)

Spec == Init /\ [][Next]_vars

\* ------------------------------------------------------------- claims
Range(s) == {s[i] : i \in 1..Len(s)}
Last(s) == s[Len(s)]

Uploads == {r \in Reqs : kind[r] = "upload"}
GenEnded(r) == pc[r] \in {"gen_done", "gen_error", "finished"} /\ gen[r].status # "none"
Responded(r) == kind[r] = "upload" /\ pc[r] = "finished" /\ gen[r].status # "none"
Succeeded(r) == Responded(r) /\ resp[r].status = "ok"

\* What the last call of generate_testcases_multimodal came to.
LastFallback(r) == Multimodal(Last(llm[r]))

\* C1: when a step of the RAG try-block has raised, generate_testcases_multimodal
\* has been called with the request's own context, what that call returned or
\* raised is what generate_testcases_with_rag hands its caller, and the error
\* that reaches the caller is never the RAG error.
C1_RagErrorFallsBack ==
  \A r \in Uploads :
    (ragErr[r] # "none" /\ GenEnded(r)) =>
      /\ fb[r].calls >= 1
      /\ fb[r].arg = ctx[r]
      /\ gen[r].origin # "rag"
      /\ IF LastFallback(r).ok
           THEN gen[r] = Returned(LastFallback(r).value)
           ELSE gen[r] = Raised("fallback", LastFallback(r).error)
      /\ pc[r] = "finished" =>
           /\ resp[r].origin # "rag"
           /\ resp[r].status = IF LastFallback(r).ok THEN "ok" ELSE "error"

\* C1 witness: the retrieval query raised and the request still got a success
\* response, from the fallback.
C1_Witness ==
  \E r \in Uploads :
    /\ ragErr[r] = "QueryError"
    /\ Succeeded(r)
    /\ fb[r].calls = 1

\* C2: with text content, a built index, a retrieval query that returns and no
\* failure of the LLM call, generation goes START, RAG_PROMPT, LLM_CALL,
\* PARSE_RESULT, DONE and never calls the fallback.
C2_RagPathCompletes ==
  \A r \in Uploads :
    ("RAG_PROMPT" \in Range(trace[r]) /\ GenEnded(r)
       /\ ragErr[r] \notin {"ApiError", "JSONDecodeError"}) =>
      /\ trace[r] = <<"START", "RAG_PROMPT", "LLM_CALL", "PARSE_RESULT", "DONE">>
      /\ fb[r].calls = 0

\* C3: while no reset and no failed construction has happened since the cache
\* was last empty, all get_qa_index calls have returned one and the same index
\* and create_qa_knowledge_base has run exactly once.
C3_GetQaIndexIdempotent ==
  (epoch.gets >= 1 /\ epoch.builds = epoch.ok) =>
    /\ Cardinality(epoch.returned) = 1
    /\ epoch.returned = {qa_index}
    /\ epoch.builds = 1

\* C3 witness: three calls, one construction.
C3_Witness == epoch.gets >= 3 /\ epoch.builds = 1 /\ epoch.ok = 1

\* A step in which a get_qa_index call ends.
GetEnds == epoch'.gets = epoch.gets + 1

\* C4 as stated: the first get_qa_index call after a reset runs
\* create_qa_knowledge_base and returns an index never returned before, and the
\* calls after it reuse that index.
C4_ResetThenGetReturnsNew ==
  [][(resets > 0 /\ GetEnds) =>
       IF epoch.gets = 0
         THEN /\ builds' = builds + 1
              /\ qa_index' # None
              /\ qa_index' \notin returned
              /\ qa_index' \in returned'
         ELSE /\ builds' = builds
              /\ qa_index' = qa_index
              /\ qa_index \in epoch.returned]_vars

\* C4 as amended: the first get_qa_index call after a reset always runs
\* create_qa_knowledge_base; when the construction completes the call returns
\* an index never returned before and the calls after it reuse it; when it
\* raises the cache stays empty and the call after it runs the construction
\* again.
C4_ResetForcesRebuild ==
  [][(resets > 0 /\ GetEnds) =>
       IF epoch.gets = 0 \/ qa_index = None
         THEN /\ builds' = builds + 1
              /\ qa_index' # None =>
                   /\ qa_index' \notin returned
                   /\ qa_index' \in returned'
              /\ epoch'.ok = epoch.ok => qa_index' = None
         ELSE /\ builds' = builds
              /\ qa_index' = qa_index
              /\ qa_index \in epoch.returned]_vars

\* C4 witness: an index was built, the cache was reset, the next call built
\* another index and a later call reused it.
C4_Witness ==
  /\ resets > 0
  /\ builds >= 2
  /\ epoch.gets >= 2
  /\ epoch.builds = 1
  /\ qa_index \in epoch.returned

\* C5 as stated: create_qa_knowledge_base runs at most once between the start
\* and the first reset and between two consecutive resets.
C5_CreateRunsOncePerEpoch == epoch.builds <= 1

\* C5 as amended: between the start and the first reset and between two
\* consecutive resets at most one index is built, whatever the interleaving of
\* the handlers: create_qa_knowledge_base completes at most once, every
\* get_qa_index call returns that index, and every other run of
\* create_qa_knowledge_base is one that raised.
C5_OneIndexPerEpoch ==
  /\ epoch.ok <= 1
  /\ Cardinality(epoch.returned) <= 1
  /\ epoch.ok = 1 => qa_index \in epoch.returned
  /\ \A r \in Reqs : pc[r] = "get_build" => epoch.ok = 0

\* C5 witness: two uploads in flight while the cache is empty; one has built
\* the index, the other is still being parsed and has get_qa_index ahead.
C5_Witness ==
  \E r \in Uploads, q \in Uploads :
    /\ r # q
    /\ pc[r] = "gen_retrieve"
    /\ pc[q] = "parsing"
    /\ epoch.gets = 1
    /\ epoch.ok = 1

\* C6: no call of generate_testcases_with_rag calls
\* generate_testcases_multimodal more than once.
C6_FallbackAtMostOnce == \A r \in Uploads : fb[r].calls <= 1

\* C7: a request in which generate_testcases_multimodal has raised ends in an
\* error, never in a success response.
C7_FallbackFailureIsError ==
  \A r \in Uploads :
    (Responded(r) /\ fb[r].failed > 0) =>
      /\ resp[r].status = "error"
      /\ gen[r].status = "raised"

\* C8: when the model returns the well-formed payload, the `testcases` member
\* of the response body is the array of ten test-case objects.
C8_TestcasesIsArray ==
  \A r \in Uploads :
    (Succeeded(r) /\ Last(llm[r]) = "ten_ok") =>
      /\ resp[r].body.type = "object"
      /\ "testcases" \in DOMAIN resp[r].body.members
      /\ resp[r].body.members["testcases"].type = "array"
      /\ Len(resp[r].body.members["testcases"].items) = NumCases
      /\ \A i \in 1..NumCases :
           ConformsItem(resp[r].body.members["testcases"].items[i])

\* The generation result a success response carries.
ResultIn(body) == body.members["testcases"]

\* C9 as stated: every success response carries exactly ten test-case objects
\* with the five fields present and non-null.
C9_SuccessHasTenCases ==
  \A r \in Uploads : Succeeded(r) => ConformsToSchema(ResultIn(resp[r].body))

\* C9 as amended: a success response carries what json.loads made of the
\* model's payload: never a payload that is no JSON, and ten well-formed test
\* cases exactly when the payload is as SCHEMA describes it.
C9_SuccessCarriesPayload ==
  \A r \in Uploads :
    Succeeded(r) =>
      /\ ~JsonLoadsRaises(Last(llm[r]))
      /\ ConformsToSchema(ResultIn(resp[r].body))
           <=> ConformsToSchema(JsonLoads(Last(llm[r])))

\* C9 witness: a success response with the ten well-formed test cases of a
\* conforming payload, produced by the fallback path.
C9_Witness ==
  \E r \in Uploads :
    /\ Succeeded(r)
    /\ fb[r].calls >= 1
    /\ Last(llm[r]) = "ten_ok"
    /\ ConformsToSchema(ResultIn(resp[r].body))

\* C10: a request whose ingestion failed makes no LLM call and ends in an
\* error.
C10_IngestionFailureFailsRequest ==
  \A r \in Uploads :
    ingest[r] \in {"raised", "nodocs"} =>
      /\ llm[r] = <<>>
      /\ fb[r].calls = 0
      /\ pc[r] = "finished" => resp[r].status = "error"

\* extracted_entities holds no data: None, the empty mapping, or a mapping in
\* which the three lists are absent or empty.
NoEntityData(entities) ==
  \/ entities \in {"None", "dict_empty"}
  \/ /\ entities \in {"dict_plain", "dict_lists"}
     /\ \A k \in {"main_features", "key_requirements", "user_roles"} :
          EntityList(entities, k) = <<>>

\* C11: a retrieval query made for a request whose extraction yielded no data
\* is the generic template with the first 500 characters of the text.
C11_NoDataUsesGenericQuery ==
  \A r \in Uploads :
    (query[r].template # "none" /\ NoEntityData(ctx[r].extracted_entities)) =>
      /\ query[r].template = "generic"
      /\ query[r].excerpt = Take(ctx[r].text_content, QueryExcerptLen)

\* C12: a construction that raises inside get_qa_index runs once in that call,
\* reaches the caller as its error and leaves the cache empty; the cache is
\* always empty or an index a construction completed, and a call that finds it
\* empty starts the construction.
C12_FailedBuildCachesNothing ==
  [][/\ qa_index' = None \/ qa_index' \in returned'
     /\ \A r \in Reqs :
          /\ (pc[r] = "get_build" /\ pc'[r] # "get_build" /\ returned' = returned) =>
               /\ qa_index' = None
               /\ builds' = builds + 1
               /\ IF kind[r] = "upload"
                    THEN ragErr'[r] = "IndexBuildError"
                    ELSE resp'[r].status = "error" /\ resp'[r].error = "IndexBuildError"
          /\ (pc[r] = "get_index" /\ pc'[r] # "get_index" /\ qa_index = None) =>
               pc'[r] = "get_build"]_vars

C12_Witness ==
  /\ qa_index = None /\ builds >= 2 /\ returned = {}
  /\ \E r \in Uploads : ragErr[r] = "IndexBuildError" /\ fb[r].calls = 1

\* C13: when lx.extract raises after LlamaParse gave text, the parser returns
\* that whole text with extracted_entities None, generation is entered, the
\* request's error (if any) is one of generation, and no prompt handed to the
\* LLM carries structured entity data.
C13_ExtractionFailureIsSilent ==
  \A r \in Uploads :
    (ingest[r] = "docs" /\ doc[r].extract = "raised") =>
      /\ ctx[r].text_content = doc[r].full_text
      /\ ctx[r].extracted_entities = "None"
      /\ trace[r] # <<>> /\ trace[r][1] = "START"
      /\ (Responded(r) /\ resp[r].status = "error") =>
           (gen[r].status = "raised" /\ resp[r].origin = gen[r].origin)
      /\ \A i \in 1..Len(prompts[r]) :
           prompts[r][i].structured \in {"absent", "(Not available)"}

C13_Witness ==
  \E r \in Uploads :
    /\ ingest[r] = "docs" /\ doc[r].extract = "raised"
    /\ doc[r].full_text = <<"a">>
    /\ query[r].template = "generic"
    /\ Succeeded(r) /\ Len(prompts[r]) = 1

\* C14: a call of generate_testcases_multimodal builds its prompt from the text
\* and the image text alone (no structured summary, no retrieved knowledge),
\* calls neither get_qa_index nor the index's query engine, and leaves the
\* cache and everything about the index as it was.
C14_FallbackLeavesIndexAlone ==
  [][\A r \in Reqs :
       fb'[r].calls > fb[r].calls =>
         /\ UNCHANGED <<qa_index, persisted, builds, resets, epoch, returned>>
         /\ got' = got /\ query' = query
         /\ Len(prompts'[r]) = Len(prompts[r]) + 1
         /\ Last(prompts'[r]) =
              [template |-> "multimodal", text |-> ctx[r].text_content,
               visuals |-> <<>>, structured |-> "absent", knowledge |-> FALSE]]_vars

C14_Witness ==
  \E r \in Uploads :
    /\ Responded(r) /\ fb[r].calls >= 1
    /\ Truthy(ctx[r].extracted_entities)
    /\ got[r] = "cached" /\ qa_index # None /\ qa_index \in epoch.returned

\* C15: a call of generate_testcases_with_rag passes through no stage twice,
\* and when it has ended its last stage is DONE or ERROR, the only one of the
\* two it went through.
C15_EndsWithoutRevisit ==
  \A r \in Uploads :
    /\ \A i, j \in 1..Len(trace[r]) : i # j => trace[r][i] # trace[r][j]
    /\ GenEnded(r) =>
         /\ Last(trace[r]) \in {"DONE", "ERROR"}
         /\ \A i \in 1..(Len(trace[r]) - 1) : trace[r][i] \notin {"DONE", "ERROR"}

\* C16: the first get_qa_index call of a process run that started with a
\* persisted index in PERSIST_DIR gets its index without a run of
\* create_qa_knowledge_base.
C16_PersistedIndexIsReused ==
  [][\A r \in Reqs :
       (/\ restarted /\ resets = 0 /\ epoch.gets = 0
        /\ persisted /\ qa_index = None
        /\ pc[r] = "get_index" /\ pc'[r] # "get_index") =>
         /\ pc'[r] # "get_build"
         /\ builds' = builds
         /\ qa_index' # None]_vars

\* C17: when the handler of an upload that reached parsing has finished, with a
\* response or with an error of generation, the request's temporary file no
\* longer exists.
C17_TmpFileRemoved ==
  \A r \in Uploads : (pc[r] = "finished" /\ ingest[r] # "none") => ~tmp[r]

C17_Witness ==
  \E r \in Uploads :
    /\ pc[r] = "finished" /\ ingest[r] = "docs" /\ ~tmp[r]
    /\ resp[r].status = "error" /\ resp[r].origin = "fallback"

====
